---- MODULE Spec2Model ----
(***************************************************************************)
(* Model of the sniper order execution engine (src/src/index.ts):         *)
(* the websocket ingress, the order store, the BullMQ job and its retry,  *)
(* the worker pipeline, the pool check, the DEX router and the per-order  *)
(* status broadcast.                                                       *)
(***************************************************************************)
EXTENDS Integers, Sequences, FiniteSets, TLC

VARIABLES
    \* ---- ingress: one entry per websocket connection (index.ts 511-601)
    readyState,      \* socket.readyState: 1 OPEN, 2 CLOSING, 3 CLOSED
    handler,         \* position of the async 'message' handler
    orderProcessed,  \* the closure flag orderProcessed
    orderId,         \* the closure variable orderId (Null until generated)
    firstMsg,        \* the first message the connection sent (Null before)
    received,        \* what the client has received on its open socket
    nextOrderId,     \* source of fresh ids (randomUUID)
    \* ---- shared state
    wsConnections,   \* Map orderId -> Set of sockets
    orders,          \* the orders table: orderId -> row (NoRow if absent)
    \* ---- queue and worker (index.ts 166-299, 570-579)
    job,             \* orderId -> BullMQ job record
    \* ---- getBestRoute called on its own (index.ts 373-449)
    routeArgs, routeResult,
    \* ---- checkForPool called on its own (index.ts 311-371)
    poolEnv, poolResult,
    \* ---- process environment
    workerConcurrency,  \* the Worker option concurrency, read from CONFIG
    now,                \* the clock, in milliseconds
    sigterm,            \* the call the SIGTERM handler is awaiting
    \* ---- broadcastToOrder called on its own (index.ts 116-127)
    published,       \* the last such call: its number, order, event, sends
    \* ---- the venues (executeRaydiumSwap, executeMeteoraSwap)
    swaps            \* orderId -> the swaps the venues have executed for it

ingressVars == <<readyState, handler, orderProcessed, orderId, firstMsg,
                 received, nextOrderId>>
sysVars == <<readyState, handler, orderProcessed, orderId, firstMsg, received,
             nextOrderId, wsConnections, orders, job>>
routeVars == <<routeArgs, routeResult>>
poolVars == <<poolEnv, poolResult>>
envVars == <<workerConcurrency, now, sigterm, published, swaps>>
vars == <<readyState, handler, orderProcessed, orderId, firstMsg, received,
          nextOrderId, wsConnections, orders, job,
          routeArgs, routeResult, poolEnv, poolResult,
          workerConcurrency, now, sigterm, published, swaps>>

Null == "null"

\* ---------------------------------------------------------------- bounds
\* number of websocket connections the model opens
MaxConns == 2
\* the polling budget the specification speaks of (the code has none)
Budget == 2
\* the orders (by id, oldest first) whose job may meet a failure
MaxFailingOrders == 1
\* how many times the clock advances
MaxTicks == 2
\* how many times broadcastToOrder is called on its own
MaxPublishes == 1

\* ------------------------------------------------------------- constants
\* CONFIG.queue.maxRetries, the job option "attempts"
maxRetries == 3
\* CONFIG.queue.concurrency when QUEUE_CONCURRENCY is not set
concurrency == 10
\* the clock advances by one second
TickMs == 1000
\* WebSocket readyState values
OPEN == 1
CLOSING == 2
CLOSED == 3
\* bn.js stores a number in 26-bit words, least significant first
WordBase == 67108864

Conns == 1..MaxConns
OrderIds == 1..MaxConns

\* ------------------------------------------------------------------ bn.js
\* A BN is its sequence of 26-bit words, least significant first, without
\* leading zero words.  A JavaScript number holding an integer n < 2^53 is
\* the pair [hi, lo] with n = hi * 2^26 + lo.
BN9M == <<9000000>>
BN10M == <<10000000>>
BN2p52 == <<0, 0, 1>>         \* 2^52
BN2p53 == <<0, 0, 2>>         \* 2^53
BN2p53p1 == <<1, 0, 2>>       \* 2^53 + 1
Amounts == {BN9M, BN10M, BN2p52, BN2p53, BN2p53p1}

\* exact comparison of two BN values (used to state the properties)
BNgt(a, b) ==
    \/ Len(a) > Len(b)
    \/ /\ Len(a) = Len(b)
       /\ \E i \in 1..Len(a) :
            /\ a[i] > b[i]
            /\ \A j \in (i+1)..Len(a) : a[j] = b[j]

\* BN.prototype.toNumber: throws beyond 53 bits
toNumber(bn) ==
    IF Len(bn) = 1 THEN [type |-> "number", hi |-> 0, lo |-> bn[1]]
    ELSE IF Len(bn) = 2 THEN [type |-> "number", hi |-> bn[2], lo |-> bn[1]]
    ELSE IF Len(bn) = 3 /\ bn[3] = 1
    THEN [type |-> "number", hi |-> WordBase + bn[2], lo |-> bn[1]]
    ELSE [type |-> "throw"]

\* JavaScript a > b on two such numbers
NumGT(a, b) == a.hi > b.hi \/ (a.hi = b.hi /\ a.lo > b.lo)

\* Number.prototype.toLocaleString: the digits of the number, grouped
toLocaleString(n) == [digits |-> <<n.hi, n.lo>>]

ErrNoQuotes == "No quotes available from any DEX"
ErrUnsafe == "Number can only safely store up to 53 bits"
ErrPoolNotFound == "Pool not found on any DEX"
ErrExternal == "external error"

\* ----------------------------------------------------------- getBestRoute
\* rq, mq: what getRaydiumSwapQuote / getMeteoraSwapQuote do when called:
\* they throw, or return a quote {outputAmount, tradeFee, priceImpact}.
QuoteThrows == [type |-> "throw"]
Undefined == [type |-> "undefined"]
Quote(out, fee, impact) ==
    [type |-> "quote", outputAmount |-> out, tradeFee |-> fee,
     priceImpact |-> impact]

\* a quote requested from a venue whether or not its pool id is known
quoteOf_NoPoolGuard(poolId, q) ==
    IF q.type = "quote" THEN q ELSE Undefined

\* a venue whose quote call threw counted as quoting nothing out
quoteOf_ThrowAsZero(poolId, q) ==
    IF poolId = Null THEN Undefined
    ELSE IF q.type = "quote" THEN q ELSE Quote(<<0>>, <<0>>, 0)

\* lines 382-403: the quote variable of a venue after its try/catch
quoteOf(poolId, q) ==
    IF poolId # Null /\ q.type = "quote" THEN q ELSE Undefined

RouteError(msg) == [type |-> "error", message |-> msg]

getBestRoute(raydiumPoolId, meteoraPoolId, rq, mq) ==
    LET raydiumQuote == quoteOf(raydiumPoolId, rq)
        meteoraQuote == quoteOf(meteoraPoolId, mq)
        decision(dex, pool, reason) ==
            [type |-> "ok", dex |-> dex, poolId |-> pool,
             raydiumQuote |-> raydiumQuote, meteoraQuote |-> meteoraQuote,
             selectedQuote |-> IF dex = "raydium" THEN raydiumQuote
                                                  ELSE meteoraQuote,
             reason |-> reason]
    IN  IF raydiumQuote = Undefined /\ meteoraQuote = Undefined
        THEN RouteError(ErrNoQuotes)
        ELSE IF meteoraQuote = Undefined
        THEN decision("raydium", raydiumPoolId, <<"Only Raydium available">>)
        ELSE IF raydiumQuote = Undefined
        THEN decision("meteora", meteoraPoolId, <<"Only Meteora available">>)
        ELSE LET raydiumOutput == toNumber(raydiumQuote.outputAmount)
                 meteoraOutput == toNumber(meteoraQuote.outputAmount)
             IN  IF raydiumOutput.type = "throw" \/ meteoraOutput.type = "throw"
                 THEN RouteError(ErrUnsafe)
                 ELSE IF NumGT(raydiumOutput, meteoraOutput)
                 THEN decision("raydium", raydiumPoolId,
                               <<"Better output", toLocaleString(raydiumOutput),
                                 toLocaleString(meteoraOutput)>>)
                 ELSE decision("meteora", meteoraPoolId,
                               <<"Better output", toLocaleString(meteoraOutput),
                                 toLocaleString(raydiumOutput)>>)

\* ----------------------------------------------------------- checkForPool
\* file: the pool ids test-pools.json holds for the token, per venue (Null
\* when the file is missing or has no entry for it); chainR, chainM: what
\* checkRaydiumPoolExists / checkMeteoraPoolExists do when called: they
\* throw, or return {exists, poolId}.
ChainThrows == [type |-> "throw", exists |-> FALSE, poolId |-> Null]
ChainNone == [type |-> "info", exists |-> FALSE, poolId |-> Null]
ChainPool(id) == [type |-> "info", exists |-> TRUE, poolId |-> id]

checkForPool(file, chainR, chainM) ==
    LET needR == file.raydium = Null
        needM == file.meteora = Null
        raydiumPoolId == IF ~needR THEN file.raydium
                         ELSE IF chainR.exists THEN chainR.poolId ELSE Null
        meteoraPoolId == IF ~needM THEN file.meteora
                         ELSE IF chainM.exists THEN chainM.poolId ELSE Null
    IN  IF (needR /\ chainR.type = "throw") \/ (needM /\ chainM.type = "throw")
        THEN [type |-> "error", message |-> ErrExternal,
              found |-> FALSE, raydiumPoolId |-> Null, meteoraPoolId |-> Null]
        ELSE [type |-> "ok", message |-> Null,
              found |-> (raydiumPoolId # Null \/ meteoraPoolId # Null),
              raydiumPoolId |-> raydiumPoolId,
              meteoraPoolId |-> meteoraPoolId]

\* ------------------------------------------------------------ order store
Statuses == <<"pending", "monitoring", "triggered", "routing", "building",
              "submitted", "confirmed">>

NoData == [selectedDex |-> Null, txHash |-> Null, errorMessage |-> Null]

\* createOrder: INSERT INTO orders (id, status, token_address, ...)
createOrder(id) ==
    [x \in DOMAIN orders \cup {id} |->
        IF x = id
        THEN [status |-> "pending", selected_dex |-> Null, tx_hash |-> Null,
              error_message |-> Null]
        ELSE orders[x]]

\* an UPDATE without its WHERE clause: every row takes the new values
updateOrderStatus_AllRows(id, status, data) ==
    [x \in DOMAIN orders |->
        [status |-> status,
         selected_dex |-> IF data.selectedDex # Null
                          THEN data.selectedDex ELSE orders[x].selected_dex,
         tx_hash |-> IF data.txHash # Null THEN data.txHash
                     ELSE orders[x].tx_hash,
         error_message |-> IF data.errorMessage # Null
                           THEN data.errorMessage ELSE orders[x].error_message]]

\* updateOrderStatus: UPDATE orders SET status, [selected_dex], [tx_hash],
\* [error_message] WHERE id = $1; a field is written only when truthy
updateOrderStatus(id, status, data) ==
    IF id \in DOMAIN orders
    THEN [orders EXCEPT ![id] =
            [status |-> status,
             selected_dex |-> IF data.selectedDex # Null
                              THEN data.selectedDex ELSE @.selected_dex,
             tx_hash |-> IF data.txHash # Null THEN data.txHash ELSE @.tx_hash,
             error_message |-> IF data.errorMessage # Null
                               THEN data.errorMessage ELSE @.error_message]]
    ELSE orders

\* ------------------------------------------------------------- broadcast
\* a broadcast that reaches every open socket, observer of the order or not
broadcastToOrder_ToAll(id, status) ==
    [c \in Conns |->
        IF readyState[c] = OPEN
        THEN received[c] \cup {status}
        ELSE received[c]]

\* broadcastToOrder: every socket of the order's set that is OPEN gets the
\* message (named here by its status)
broadcastToOrder(id, status) ==
    [c \in Conns |->
        IF id \in DOMAIN wsConnections /\ c \in wsConnections[id]
           /\ readyState[c] = OPEN
        THEN received[c] \cup {status}
        ELSE received[c]]

\* the ws.send calls of one broadcast, socket by socket
NoSends == [c \in Conns |-> 0]

\* connections.forEach((ws) => { if (ws.readyState === 1) ws.send(..) })
RECURSIVE forEachSend(_, _)
forEachSend(connections, sends) ==
    IF connections = {} THEN sends
    ELSE LET ws == CHOOSE x \in connections : TRUE
         IN  forEachSend(connections \ {ws},
                         IF readyState[ws] = OPEN
                         THEN [sends EXCEPT ![ws] = @ + 1]
                         ELSE sends)

\* a broadcast that sends to every member, whatever its readyState
sendsOf_AnyState(id) ==
    [c \in Conns |->
        IF id \in DOMAIN wsConnections /\ c \in wsConnections[id]
        THEN 1 ELSE 0]

\* broadcastToOrder, counted: how many times each socket's send is called
sendsOf(id) ==
    IF id \in DOMAIN wsConnections
    THEN forEachSend(wsConnections[id], NoSends)
    ELSE NoSends

\* the events broadcastToOrder is called with on its own
PublishEvents == {"pending", "confirmed"}
NoPublish == [n |-> 0, orderId |-> 0, status |-> Null, sends |-> NoSends]

\* a call broadcastToOrder(o, event) on its own
Publish(o) ==
    /\ published.n < MaxPublishes
    /\ \E status \in PublishEvents :
        /\ published' = [n |-> published.n + 1, orderId |-> o,
                         status |-> status, sends |-> sendsOf(o)]
        /\ received' = broadcastToOrder(o, status)
    /\ UNCHANGED <<readyState, handler, orderProcessed, orderId, firstMsg,
                   nextOrderId, wsConnections, orders, job, routeVars,
                   poolVars, workerConcurrency, now, sigterm, swaps>>

\* -------------------------------------------------------------- shutdown
\* the calls the SIGTERM handler awaits, in its order
ShutdownCalls == <<"worker.close", "orderQueue.close", "redisConnection.quit",
                   "pgPool.end", "app.close", "exit">>
CallRank(call) == CHOOSE k \in 1..Len(ShutdownCalls) : ShutdownCalls[k] = call
\* the SIGTERM handler has made this call (it is awaiting it or is past it)
Called(call) == sigterm # "none" /\ CallRank(sigterm) >= CallRank(call)

\* --------------------------------------------------------------- ingress
NoOrder == 0
NoMsg == [kind |-> "none", tokenAddress |-> FALSE, amountIn |-> FALSE,
          slippage |-> FALSE]
\* a message: text that does not parse, the JSON null, or an object whose
\* three fields are each present (truthy) or not
Messages ==
    {[kind |-> "garbage", tokenAddress |-> FALSE, amountIn |-> FALSE,
      slippage |-> FALSE],
     [kind |-> "jsonnull", tokenAddress |-> FALSE, amountIn |-> FALSE,
      slippage |-> FALSE]}
    \cup [kind : {"object"}, tokenAddress : BOOLEAN, amountIn : BOOLEAN,
          slippage : BOOLEAN]

\* a validation that forgets the slippage field
validate_NoSlippage(m) ==
    IF m.kind = "garbage" THEN "Invalid JSON"
    ELSE IF m.kind = "jsonnull" \/ ~m.tokenAddress \/ ~m.amountIn
    THEN "Invalid order"
    ELSE "ok"

\* lines 526-544: JSON.parse and the required-field test
validate(m) ==
    IF m.kind = "garbage" THEN "Invalid JSON"
    ELSE IF m.kind = "jsonnull" \/ ~m.tokenAddress \/ ~m.amountIn
            \/ ~m.slippage
    THEN "Invalid order"
    ELSE "ok"

\* socket.on('message'): the synchronous part, up to await createOrder
OnMessage(c) ==
    /\ readyState[c] = OPEN
    /\ ~Called("app.close")
    /\ ~orderProcessed[c]
    /\ \E m \in Messages :
        /\ orderProcessed' = [orderProcessed EXCEPT ![c] = TRUE]
        /\ firstMsg' = [firstMsg EXCEPT ![c] = m]
        /\ IF validate(m) # "ok"
           THEN /\ received' = [received EXCEPT ![c] = @ \cup {validate(m)}]
                /\ readyState' = [readyState EXCEPT ![c] = CLOSING]
                /\ handler' = [handler EXCEPT ![c] = "rejected"]
                /\ UNCHANGED <<orderId, nextOrderId, wsConnections>>
           ELSE /\ orderId' = [orderId EXCEPT ![c] = nextOrderId]
                /\ nextOrderId' = nextOrderId + 1
                /\ wsConnections' =
                     LET had == IF nextOrderId \in DOMAIN wsConnections
                                THEN wsConnections[nextOrderId] ELSE {}
                     IN  [x \in DOMAIN wsConnections \cup {nextOrderId} |->
                            IF x = nextOrderId THEN had \cup {c}
                            ELSE wsConnections[x]]
                /\ received' = [received EXCEPT ![c] = @ \cup {"ack"}]
                /\ handler' = [handler EXCEPT ![c] = "creating"]
                /\ UNCHANGED readyState
    /\ UNCHANGED <<orders, job, routeVars, poolVars, envVars>>

\* await createOrder(orderId, order) returns or throws
CreateOrderDone(c) ==
    /\ handler[c] = "creating"
    /\ \/ /\ ~Called("pgPool.end")
          /\ orders' = createOrder(orderId[c])
          /\ handler' = [handler EXCEPT ![c] = "enqueueing"]
       \/ /\ handler' = [handler EXCEPT ![c] = "createFailed"]
          /\ UNCHANGED orders
    /\ UNCHANGED <<readyState, orderProcessed, orderId, firstMsg, received,
                   nextOrderId, wsConnections, job, routeVars,
                   poolVars, envVars>>

NoPools == [raydiumPoolId |-> Null, meteoraPoolId |-> Null]
NoRoute == [dex |-> Null, poolId |-> Null]
\* failedAt: when the last attempt threw; readyAt: the time before which
\* the queue does not hand the job to a worker (0: at once)
NewJob == [state |-> "waiting", attemptsMade |-> 0, pc |-> "idle",
           poolCheck |-> NoPools, bestRoute |-> NoRoute, txHash |-> Null,
           error |-> Null, failedAt |-> 0, readyAt |-> 0]

\* the options orderQueue.add gives the job: attempts and the two remove
\* flags, and no backoff
JobOptions == [attempts |-> maxRetries, backoff |-> Null]

\* the Worker setting backoffStrategy: Math.pow(2, attemptsMade) * 1000
backoffStrategy(attemptsMade) == (2 ^ attemptsMade) * 1000

\* BullMQ, on a failed attempt that will be retried: the delay comes from
\* the job's backoff option (here through the worker's strategy); a job
\* without that option goes back to wait at once
retryDelay(opts, attemptsMade) ==
    IF opts.backoff = Null THEN 0 ELSE backoffStrategy(attemptsMade)

\* await orderQueue.add('sniper', {orderId, order}, {attempts}) returns or
\* throws
EnqueueDone(c) ==
    /\ handler[c] = "enqueueing"
    /\ \/ /\ ~Called("redisConnection.quit")
          /\ job' = [x \in DOMAIN job \cup {orderId[c]} |->
                        IF x = orderId[c] THEN NewJob ELSE job[x]]
          /\ handler' = [handler EXCEPT ![c] = "done"]
       \/ /\ handler' = [handler EXCEPT ![c] = "addFailed"]
          /\ UNCHANGED job
    /\ UNCHANGED <<readyState, orderProcessed, orderId, firstMsg, received,
                   nextOrderId, wsConnections, orders, routeVars,
                   poolVars, envVars>>

\* the client calls ws.close() and stops reading (unnamed/part_000 46)
ClientClose(c) ==
    /\ readyState[c] = OPEN
    /\ readyState' = [readyState EXCEPT ![c] = CLOSING]
    /\ received' = [received EXCEPT ![c] = {}]
    /\ UNCHANGED <<handler, orderProcessed, orderId, firstMsg, nextOrderId,
                   wsConnections, orders, job, routeVars, poolVars, envVars>>

\* a close handler that removes the socket and keeps the emptied entry
OnClose_KeepEmpty(c) ==
    /\ readyState[c] = CLOSING
    /\ readyState' = [readyState EXCEPT ![c] = CLOSED]
    /\ received' = [received EXCEPT ![c] = {}]
    /\ wsConnections' =
         IF orderId[c] # NoOrder /\ orderId[c] \in DOMAIN wsConnections
         THEN [wsConnections EXCEPT ![orderId[c]] = @ \ {c}]
         ELSE wsConnections
    /\ UNCHANGED <<handler, orderProcessed, orderId, firstMsg, nextOrderId,
                   orders, job, routeVars, poolVars, envVars>>

\* socket.on('close') on the server; the client's ws.on('close') ends the
\* client process (unnamed/part_000 50-53), and with it what it had received
OnClose(c) ==
    /\ readyState[c] = CLOSING
    /\ readyState' = [readyState EXCEPT ![c] = CLOSED]
    /\ received' = [received EXCEPT ![c] = {}]
    /\ wsConnections' =
         IF orderId[c] # NoOrder /\ orderId[c] \in DOMAIN wsConnections
         THEN IF wsConnections[orderId[c]] \ {c} = {}
              THEN [x \in DOMAIN wsConnections \ {orderId[c]} |->
                        wsConnections[x]]
              ELSE [wsConnections EXCEPT ![orderId[c]] = @ \ {c}]
         ELSE wsConnections
    /\ UNCHANGED <<handler, orderProcessed, orderId, firstMsg, nextOrderId,
                   orders, job, routeVars, poolVars, envVars>>

\* GET /api/orders/:id: a read of the orders table
getOrder(id) ==
    IF id \in DOMAIN orders
    THEN [code |-> 200, status |-> orders[id].status]
    ELSE [code |-> 404, status |-> Null]

\* ---------------------------------------------------------------- worker
Active == {o \in DOMAIN job : job[o].state = "active"}

jobUnchanged == UNCHANGED <<readyState, handler, orderProcessed, orderId,
                            firstMsg, nextOrderId, wsConnections,
                            routeVars, poolVars, envVars>>

\* the failures of venues and store are met by the oldest orders only
MayFail(o) == o <= MaxFailingOrders

\* control reaches the catch block with error e; the locals of the try
\* block go out of scope
toCatch(j, e) == [j EXCEPT !.pc = "catch", !.error = e, !.poolCheck = NoPools,
                           !.bestRoute = NoRoute, !.txHash = Null]

\* a worker that takes a waiting job whether or not a slot is free
StartJob_NoLimit(o) ==
    /\ o \in DOMAIN job
    /\ job[o].state = "waiting"
    /\ sigterm = "none"
    /\ now >= job[o].readyAt
    /\ job' = [job EXCEPT ![o] = [@ EXCEPT !.state = "active",
                                          !.pc = "pending",
                                          !.poolCheck = NoPools,
                                          !.bestRoute = NoRoute,
                                          !.txHash = Null,
                                          !.error = Null,
                                          !.failedAt = 0,
                                          !.readyAt = 0]]
    /\ UNCHANGED <<orders, received>>
    /\ jobUnchanged

\* the worker takes a waiting job (first run or retry) when a slot is free
StartJob(o) ==
    /\ o \in DOMAIN job
    /\ job[o].state = "waiting"
    /\ sigterm = "none"
    /\ now >= job[o].readyAt
    /\ Cardinality(Active) < workerConcurrency
    /\ job' = [job EXCEPT ![o] = [@ EXCEPT !.state = "active",
                                          !.pc = "pending",
                                          !.poolCheck = NoPools,
                                          !.bestRoute = NoRoute,
                                          !.txHash = Null,
                                          !.error = Null,
                                          !.failedAt = 0,
                                          !.readyAt = 0]]
    /\ UNCHANGED <<orders, received>>
    /\ jobUnchanged

\* a step that broadcasts its status before the store has taken the update
Persist_BroadcastFirst(o, at, status, data, next) ==
    /\ o \in DOMAIN job
    /\ job[o].state = "active"
    /\ job[o].pc = at
    /\ received' = broadcastToOrder(o, status)
    /\ \/ /\ orders' = updateOrderStatus(o, status, data)
          /\ job' = [job EXCEPT ![o].pc = next]
       \/ /\ MayFail(o)
          /\ job' = [job EXCEPT ![o] = toCatch(@, ErrExternal)]
          /\ UNCHANGED orders
    /\ jobUnchanged

\* one numbered step of the try block: await updateOrderStatus, which
\* returns or throws, then broadcastToOrder
Persist(o, at, status, data, next) ==
    /\ o \in DOMAIN job
    /\ job[o].state = "active"
    /\ job[o].pc = at
    /\ \/ /\ orders' = updateOrderStatus(o, status, data)
          /\ received' = broadcastToOrder(o, status)
          /\ job' = [job EXCEPT ![o].pc = next]
       \/ /\ MayFail(o)
          /\ job' = [job EXCEPT ![o] = toCatch(@, ErrExternal)]
          /\ UNCHANGED <<orders, received>>
    /\ jobUnchanged

StepPending(o) == Persist(o, "pending", "pending", NoData, "monitoring")

StepMonitoring(o) == Persist(o, "monitoring", "monitoring", NoData, "checkPool")

\* the pool reports the worker's checkForPool call can meet
JobFiles == {[raydium |-> Null, meteora |-> Null]}
JobChainR == {ChainThrows, ChainNone, ChainPool("raydium-pool")}
JobChainM == {ChainNone, ChainPool("meteora-pool")}

\* lines 193-197: await checkForPool, throw when nothing was found
CheckPool(o) ==
    /\ o \in DOMAIN job
    /\ job[o].state = "active"
    /\ job[o].pc = "checkPool"
    /\ \E file \in JobFiles, chainR \in JobChainR, chainM \in JobChainM :
        LET poolCheck == checkForPool(file, chainR, chainM)
        IN  /\ (poolCheck.type = "error" \/ ~poolCheck.found) => MayFail(o)
            /\ job' = [job EXCEPT ![o] =
                  IF poolCheck.type = "error"
                  THEN toCatch(@, poolCheck.message)
                  ELSE IF ~poolCheck.found
                  THEN toCatch(@, ErrPoolNotFound)
                  ELSE [@ EXCEPT !.pc = "triggered",
                                 !.poolCheck =
                                    [raydiumPoolId |-> poolCheck.raydiumPoolId,
                                     meteoraPoolId |-> poolCheck.meteoraPoolId]]]
    /\ UNCHANGED <<orders, received>>
    /\ jobUnchanged

StepTriggered(o) == Persist(o, "triggered", "triggered", NoData, "routing")

StepRouting(o) == Persist(o, "routing", "routing", NoData, "getRoute")

\* the quote outcomes the worker's getBestRoute call can meet
JobQuotes == {QuoteThrows, Quote(BN9M, <<250000>>, 50),
              Quote(BN10M, <<200000>>, 45)}

\* lines 218-230: await getBestRoute, then the second routing broadcast
GetRoute(o) ==
    /\ o \in DOMAIN job
    /\ job[o].state = "active"
    /\ job[o].pc = "getRoute"
    /\ \E rq \in JobQuotes, mq \in JobQuotes :
        LET bestRoute == getBestRoute(job[o].poolCheck.raydiumPoolId,
                                      job[o].poolCheck.meteoraPoolId, rq, mq)
        IN  IF bestRoute.type = "error"
            THEN /\ MayFail(o)
                 /\ job' = [job EXCEPT ![o] = toCatch(@, bestRoute.message)]
                 /\ UNCHANGED received
            ELSE /\ job' = [job EXCEPT ![o].pc = "building",
                                       ![o].bestRoute =
                                          [dex |-> bestRoute.dex,
                                           poolId |-> bestRoute.poolId]]
                 /\ received' = broadcastToOrder(o, "routing")
    /\ UNCHANGED orders
    /\ jobUnchanged

StepBuilding(o) ==
    /\ o \in DOMAIN job
    /\ Persist(o, "building", "building",
               [NoData EXCEPT !.selectedDex = job[o].bestRoute.dex],
               "submitted")

StepSubmitted(o) == Persist(o, "submitted", "submitted", NoData, "execute")

ErrUnknownDex == "Unknown DEX"
SwapError(msg) == [type |-> "error", message |-> msg, venue |-> Null,
                   poolId |-> Null, txId |-> Null]

\* an executeTransaction that swaps on Raydium whatever the route says
executeTransaction_Raydium(route, txId, throws) ==
    IF throws THEN SwapError(ErrExternal)
    ELSE [type |-> "ok", message |-> Null, venue |-> "raydium",
          poolId |-> route.poolId, txId |-> txId]

\* executeTransaction(route, order): the swap of the venue route.dex is
\* called with route.poolId; it throws, or returns the transaction id txId,
\* which is what the function returns
executeTransaction(route, txId, throws) ==
    IF route.dex \notin {"raydium", "meteora"} THEN SwapError(ErrUnknownDex)
    ELSE IF throws THEN SwapError(ErrExternal)
    ELSE [type |-> "ok", message |-> Null, venue |-> route.dex,
          poolId |-> route.poolId, txId |-> txId]

\* a worker that carries on to step 7 when executeTransaction threw
Execute_Swallow(o) ==
    /\ o \in DOMAIN job
    /\ job[o].state = "active"
    /\ job[o].pc = "execute"
    /\ \E throws \in BOOLEAN :
        LET r == executeTransaction(job[o].bestRoute,
                                    ToString(job[o].attemptsMade + 1), throws)
        IN  IF r.type = "error"
            THEN /\ MayFail(o)
                 /\ job' = [job EXCEPT ![o].pc = "confirmed"]
                 /\ UNCHANGED swaps
            ELSE /\ job' = [job EXCEPT ![o].pc = "confirmed",
                                       ![o].txHash = r.txId]
                 /\ swaps' = [swaps EXCEPT ![o] =
                                Append(@, [dex |-> r.venue,
                                           poolId |-> r.poolId])]
    /\ UNCHANGED <<orders, received>>
    /\ UNCHANGED <<readyState, handler, orderProcessed, orderId, firstMsg,
                   nextOrderId, wsConnections, routeVars, poolVars,
                   workerConcurrency, now, sigterm, published>>

\* lines 254-256: await executeTransaction(bestRoute, order); a swap that
\* returned is in the venue's books
Execute(o) ==
    /\ o \in DOMAIN job
    /\ job[o].state = "active"
    /\ job[o].pc = "execute"
    /\ \E throws \in BOOLEAN :
        LET r == executeTransaction(job[o].bestRoute,
                                    ToString(job[o].attemptsMade + 1), throws)
        IN  IF r.type = "error"
            THEN /\ MayFail(o)
                 /\ job' = [job EXCEPT ![o] = toCatch(@, r.message)]
                 /\ UNCHANGED swaps
            ELSE /\ job' = [job EXCEPT ![o].pc = "confirmed",
                                       ![o].txHash = r.txId]
                 /\ swaps' = [swaps EXCEPT ![o] =
                                Append(@, [dex |-> r.venue,
                                           poolId |-> r.poolId])]
    /\ UNCHANGED <<orders, received>>
    /\ UNCHANGED <<readyState, handler, orderProcessed, orderId, firstMsg,
                   nextOrderId, wsConnections, routeVars, poolVars,
                   workerConcurrency, now, sigterm, published>>

\* lines 258-269: persist and broadcast confirmed, return: the job completes
StepConfirmed(o) ==
    /\ o \in DOMAIN job
    /\ job[o].state = "active"
    /\ job[o].pc = "confirmed"
    /\ \/ /\ orders' = updateOrderStatus(o, "confirmed",
                          [NoData EXCEPT !.txHash = job[o].txHash])
          /\ received' = broadcastToOrder(o, "confirmed")
          /\ job' = [job EXCEPT ![o] =
                        [NewJob EXCEPT !.state = "completed",
                                       !.attemptsMade =
                                          job[o].attemptsMade + 1]]
       \/ /\ MayFail(o)
          /\ job' = [job EXCEPT ![o] = toCatch(@, ErrExternal)]
          /\ UNCHANGED <<orders, received>>
    /\ jobUnchanged

\* BullMQ, on a job whose processor threw: back to wait while attempts are
\* left (job option attempts = CONFIG.queue.maxRetries), else failed
afterFailure(attemptsMade) ==
    IF attemptsMade < maxRetries THEN "waiting" ELSE "failed"

\* lines 271-283: the catch block: persist failed with the message,
\* broadcast it, rethrow; the persisting itself returns or throws
Catch(o) ==
    /\ o \in DOMAIN job
    /\ job[o].state = "active"
    /\ job[o].pc = "catch"
    /\ \/ /\ orders' = updateOrderStatus(o, "failed",
                          [NoData EXCEPT !.errorMessage = job[o].error])
          /\ received' = broadcastToOrder(o, "failed")
       \/ UNCHANGED <<orders, received>>
    /\ job' = [job EXCEPT ![o] =
                  [NewJob EXCEPT
                     !.state = afterFailure(job[o].attemptsMade + 1),
                     !.attemptsMade = job[o].attemptsMade + 1,
                     !.failedAt = now,
                     !.readyAt = now + retryDelay(JobOptions,
                                                  job[o].attemptsMade + 1)]]
    /\ jobUnchanged

\* process.on('SIGTERM'): the handler starts and calls worker.close(),
\* after which the worker takes no further job
Sigterm ==
    /\ sigterm = "none"
    /\ sigterm' = ShutdownCalls[1]
    /\ UNCHANGED <<sysVars, routeVars, poolVars, workerConcurrency, now,
                   published, swaps>>

\* the awaited call returns and the handler makes its next call;
\* worker.close() returns once no job is being processed
ShutdownStep ==
    /\ sigterm \notin {"none", "exit"}
    /\ sigterm = "worker.close" => Active = {}
    /\ sigterm' = ShutdownCalls[CallRank(sigterm) + 1]
    /\ UNCHANGED <<sysVars, routeVars, poolVars, workerConcurrency, now,
                   published, swaps>>

\* time passes
Tick ==
    /\ now < MaxTicks * TickMs
    /\ now' = now + TickMs
    /\ UNCHANGED <<sysVars, routeVars, poolVars, workerConcurrency, sigterm,
                   published, swaps>>

\* ------------------------------------------------------- specifications
NeverCalled == [type |-> "none"]
NoArgs == [raydiumPoolId |-> Null, meteoraPoolId |-> Null,
           rq |-> QuoteThrows, mq |-> QuoteThrows]
NoPoolEnv == [file |-> [raydium |-> Null, meteora |-> Null], polls |-> <<>>]

SysInit ==
    /\ readyState = [c \in Conns |-> OPEN]
    /\ handler = [c \in Conns |-> "idle"]
    /\ orderProcessed = [c \in Conns |-> FALSE]
    /\ orderId = [c \in Conns |-> NoOrder]
    /\ firstMsg = [c \in Conns |-> NoMsg]
    /\ received = [c \in Conns |-> {}]
    /\ nextOrderId = 1
    /\ wsConnections = <<>>
    /\ orders = <<>>
    /\ job = <<>>

RouteIdle == routeArgs = NoArgs /\ routeResult = NeverCalled
PoolIdle == poolEnv = NoPoolEnv /\ poolResult = NeverCalled

EnvInit ==
    /\ workerConcurrency = concurrency
    /\ now = 0
    /\ sigterm = "none"
    /\ published = NoPublish
    /\ swaps = [o \in OrderIds |-> <<>>]

Init == SysInit /\ RouteIdle /\ PoolIdle /\ EnvInit

Next ==
    \/ \E c \in Conns : OnMessage(c)
    \/ \E c \in Conns : CreateOrderDone(c)
    \/ \E c \in Conns : EnqueueDone(c)
    \/ \E c \in Conns : ClientClose(c)
    \/ \E c \in Conns : OnClose(c)
    \/ \E o \in OrderIds : StartJob(o)
    \/ \E o \in OrderIds : StepPending(o)
    \/ \E o \in OrderIds : StepMonitoring(o)
    \/ \E o \in OrderIds : CheckPool(o)
    \/ \E o \in OrderIds : StepTriggered(o)
    \/ \E o \in OrderIds : StepRouting(o)
    \/ \E o \in OrderIds : GetRoute(o)
    \/ \E o \in OrderIds : StepBuilding(o)
    \/ \E o \in OrderIds : StepSubmitted(o)
    \/ \E o \in OrderIds : Execute(o)
    \/ \E o \in OrderIds : StepConfirmed(o)
    \/ \E o \in OrderIds : Catch(o)

Spec == Init /\ [][Next]_vars

\* ---- getBestRoute on its own: Init draws the arguments, the action calls
Fees == {<<250000>>, <<200000>>}
Impacts == {45, 50}
RouteQuotes == {QuoteThrows}
               \cup {Quote(a, f, i) : a \in Amounts, f \in Fees, i \in Impacts}
RoutePoolsR == {Null, "raydium-pool"}
RoutePoolsM == {Null, "meteora-pool"}

RouteInit ==
    /\ SysInit /\ PoolIdle /\ EnvInit
    /\ routeArgs \in [raydiumPoolId : RoutePoolsR, meteoraPoolId : RoutePoolsM,
                      rq : RouteQuotes, mq : RouteQuotes]
    /\ routeResult = NeverCalled

CallGetBestRoute ==
    /\ routeResult = NeverCalled
    /\ routeResult' = getBestRoute(routeArgs.raydiumPoolId,
                                   routeArgs.meteoraPoolId,
                                   routeArgs.rq, routeArgs.mq)
    /\ UNCHANGED <<sysVars, routeArgs, poolVars, envVars>>

NextRoute == CallGetBestRoute

SpecRoute == RouteInit /\ [][NextRoute]_vars

\* ---- checkForPool on its own: Init draws what the file holds and what
\* each venue would report at each poll of the budget, the action calls
PoolFiles == [raydium : {Null, "raydium-file-pool"},
              meteora : {Null, "meteora-file-pool"}]
PollReports == [raydium : {ChainThrows, ChainNone, ChainPool("raydium-pool")},
                meteora : {ChainThrows, ChainNone, ChainPool("meteora-pool")}]

PoolInit ==
    /\ SysInit /\ RouteIdle /\ EnvInit
    /\ poolEnv \in [file : PoolFiles, polls : [1..Budget -> PollReports]]
    /\ poolResult = NeverCalled

\* the one check of the venues the function makes sees their first report
CallCheckForPool ==
    /\ poolResult = NeverCalled
    /\ poolResult' = checkForPool(poolEnv.file, poolEnv.polls[1].raydium,
                                  poolEnv.polls[1].meteora)
    /\ UNCHANGED <<sysVars, routeVars, poolEnv, envVars>>

NextPool == CallCheckForPool

SpecPool == PoolInit /\ [][NextPool]_vars

\* ---- the queue and its worker on their own: every connection has
\* submitted a valid order and has gone, the orders are stored and their
\* jobs wait; QUEUE_CONCURRENCY is 1 or not set; the clock runs
QueueConcurrencies == {1, concurrency}
ValidMsg == [kind |-> "object", tokenAddress |-> TRUE, amountIn |-> TRUE,
             slippage |-> TRUE]

QueueInit ==
    /\ readyState = [c \in Conns |-> CLOSED]
    /\ handler = [c \in Conns |-> "done"]
    /\ orderProcessed = [c \in Conns |-> TRUE]
    /\ orderId = [c \in Conns |-> c]
    /\ firstMsg = [c \in Conns |-> ValidMsg]
    /\ received = [c \in Conns |-> {}]
    /\ nextOrderId = MaxConns + 1
    /\ wsConnections = <<>>
    /\ orders = [o \in OrderIds |->
                    [status |-> "pending", selected_dex |-> Null,
                     tx_hash |-> Null, error_message |-> Null]]
    /\ job = [o \in OrderIds |-> NewJob]
    /\ RouteIdle /\ PoolIdle
    /\ workerConcurrency \in QueueConcurrencies
    /\ now = 0
    /\ sigterm = "none"
    /\ published = NoPublish
    /\ swaps = [o \in OrderIds |-> <<>>]

NextQueue ==
    \/ \E o \in OrderIds : StartJob(o)
    \/ \E o \in OrderIds : StepPending(o)
    \/ \E o \in OrderIds : StepMonitoring(o)
    \/ \E o \in OrderIds : CheckPool(o)
    \/ \E o \in OrderIds : StepTriggered(o)
    \/ \E o \in OrderIds : StepRouting(o)
    \/ \E o \in OrderIds : GetRoute(o)
    \/ \E o \in OrderIds : StepBuilding(o)
    \/ \E o \in OrderIds : StepSubmitted(o)
    \/ \E o \in OrderIds : Execute(o)
    \/ \E o \in OrderIds : StepConfirmed(o)
    \/ \E o \in OrderIds : Catch(o)
    \/ Tick

SpecQueue == QueueInit /\ [][NextQueue]_vars

\* ---- the ingress and broadcastToOrder on their own: connections come,
\* submit and go while events are published for any order id
NextObservers ==
    \/ \E c \in Conns : OnMessage(c)
    \/ \E c \in Conns : CreateOrderDone(c)
    \/ \E c \in Conns : EnqueueDone(c)
    \/ \E c \in Conns : ClientClose(c)
    \/ \E c \in Conns : OnClose(c)
    \/ \E o \in OrderIds : Publish(o)

SpecObservers == Init /\ [][NextObservers]_vars

\* ---- the program with SIGTERM: one connection is live, the others have
\* connected and gone without a message
ShutdownInit ==
    /\ readyState = [c \in Conns |-> IF c = 1 THEN OPEN ELSE CLOSED]
    /\ handler = [c \in Conns |-> "idle"]
    /\ orderProcessed = [c \in Conns |-> FALSE]
    /\ orderId = [c \in Conns |-> NoOrder]
    /\ firstMsg = [c \in Conns |-> NoMsg]
    /\ received = [c \in Conns |-> {}]
    /\ nextOrderId = 1
    /\ wsConnections = <<>>
    /\ orders = <<>>
    /\ job = <<>>
    /\ RouteIdle /\ PoolIdle /\ EnvInit

NextShutdown == Next \/ Sigterm \/ ShutdownStep

SpecShutdown == ShutdownInit /\ [][NextShutdown]_vars

\* ============================================================ properties
Terminal == {"confirmed", "failed"}
Rank(st) == CHOOSE k \in 1..Len(Statuses) : Statuses[k] = st

\* a permitted change of a row's status: none, forward along the lifecycle,
\* or failed from a non-terminal status
StatusMoveOK(a, b) ==
    \/ a = b
    \/ /\ a \notin Terminal
       /\ \/ b = "failed"
          \/ Rank(b) >= Rank(a)

\* C1: across all job attempts an order's persisted status never moves
\* backward along pending .. confirmed, the only other change is a jump to
\* failed from a non-terminal status, and confirmed and failed never change.
C1_StatusMonotone ==
    [][\A o \in DOMAIN orders :
          StatusMoveOK(orders[o].status, orders'[o].status)]_vars

\* C2: in every reachable state an order's tx_hash is set if and only if
\* its status is submitted or confirmed.
C2_TxHashIffSubmittedOrConfirmed ==
    \A o \in DOMAIN orders :
        (orders[o].tx_hash # Null)
            <=> (orders[o].status \in {"submitted", "confirmed"})

\* C3: in every reachable state, across all job attempts, an order's
\* error_message is set if and only if its status is failed.
C3_ErrorMessageIffFailed ==
    \A o \in DOMAIN orders :
        (orders[o].error_message # Null) <=> (orders[o].status = "failed")

\* nothing more will be done for the order of connection c: its handler
\* died before a job was enqueued, or its job left the queue for good
Finished(c) ==
    \/ handler[c] \in {"createFailed", "addFailed"}
    \/ /\ orderId[c] \in DOMAIN job
       /\ job[orderId[c]].state \in {"completed", "failed"}

\* C4: an acknowledged order whose channel stays open has a confirmed or
\* failed event delivered on it, whichever step fails; stated on finite
\* runs: once nothing more will be done for the order, the client of an
\* open acknowledged channel holds a terminal event.
C4_FinalEventDelivered ==
    \A c \in Conns :
        ("ack" \in received[c] /\ readyState[c] = OPEN /\ Finished(c))
            => received[c] \cap Terminal # {}

\* C5: every valid new-order request gets an id of its own, and from the
\* moment the client holds the acknowledgement a lookup by that id returns
\* the order, never not-found.
C5_AckedOrderIsFound ==
    /\ \A c, d \in Conns :
          (c # d /\ orderId[c] # NoOrder) => orderId[c] # orderId[d]
    /\ \A c \in Conns :
          "ack" \in received[c] => getOrder(orderId[c]).code = 200

WellFormed(m) ==
    m.kind = "object" /\ m.tokenAddress /\ m.amountIn /\ m.slippage
\* the connections whose first message was a well-formed order
ValidConns == {c \in Conns : firstMsg[c] # NoMsg /\ WellFormed(firstMsg[c])}
InvalidConns == {c \in Conns : firstMsg[c] # NoMsg /\ ~WellFormed(firstMsg[c])}
ErrorReplies == {"Invalid JSON", "Invalid order"}

\* C6: a first message that is not valid JSON or lacks tokenAddress,
\* amountIn or slippage gets an error reply and nothing else: the
\* connection has no order id and no acknowledgement, is no observer of any
\* order, and every order row, job and observer entry belongs to a
\* connection whose message was well formed.
C6_InvalidMessageRejected ==
    /\ \A c \in InvalidConns :
          /\ handler[c] = "rejected"
          /\ orderId[c] = NoOrder
          /\ "ack" \notin received[c]
          /\ readyState[c] # OPEN
          /\ readyState[c] = CLOSING => received[c] \cap ErrorReplies # {}
          /\ \A o \in DOMAIN wsConnections : c \notin wsConnections[o]
    /\ LET ids == {orderId[c] : c \in ValidConns}
       IN  /\ DOMAIN orders \subseteq ids
           /\ DOMAIN job \subseteq ids
           /\ DOMAIN wsConnections \subseteq ids

\* an invalid message was rejected while another connection's order is in
\* the store
C6_Witness ==
    \E c \in InvalidConns :
        /\ readyState[c] = CLOSING
        /\ received[c] \cap ErrorReplies # {}
        /\ DOMAIN orders # {}
        /\ DOMAIN job # {}

\* the venue has a pool and its quote call returned
Yields(poolId, q) == poolId # Null /\ q.type = "quote"
RaydiumYields == Yields(routeArgs.raydiumPoolId, routeArgs.rq)
MeteoraYields == Yields(routeArgs.meteoraPoolId, routeArgs.mq)

\* how a reason cites an amount: the exact digits of the integer
Cited(bn) ==
    [digits |-> <<(IF Len(bn) >= 3 THEN bn[3] * WordBase ELSE 0)
                    + (IF Len(bn) >= 2 THEN bn[2] ELSE 0), bn[1]>>]

\* C7: when both venues return a quote and the output amounts differ,
\* getBestRoute selects the venue with the strictly larger output amount
\* and the reason cites both amounts, whatever the fees and price impacts.
C7_LargerOutputSelected ==
    (/\ routeResult # NeverCalled
     /\ RaydiumYields /\ MeteoraYields
     /\ routeArgs.rq.outputAmount # routeArgs.mq.outputAmount)
    => LET r == routeArgs.rq.outputAmount
           m == routeArgs.mq.outputAmount
       IN  /\ routeResult.type = "ok"
           /\ routeResult.dex = IF BNgt(r, m) THEN "raydium" ELSE "meteora"
           /\ routeResult.reason =
                IF BNgt(r, m) THEN <<"Better output", Cited(r), Cited(m)>>
                              ELSE <<"Better output", Cited(m), Cited(r)>>

\* C8: getBestRoute fails with the no-quote error exactly when no venue
\* yields a quote (no pool, or its quote call threw); when exactly one venue
\* yields a quote it is selected with reason 'Only <venue> available' and
\* the other venue's failure is not propagated.
C8_NoQuoteErrorAndSingleVenue ==
    routeResult # NeverCalled =>
        /\ (routeResult.type = "error" /\ routeResult.message = ErrNoQuotes)
              <=> (~RaydiumYields /\ ~MeteoraYields)
        /\ (RaydiumYields /\ ~MeteoraYields) =>
              /\ routeResult.type = "ok"
              /\ routeResult.dex = "raydium"
              /\ routeResult.poolId = routeArgs.raydiumPoolId
              /\ routeResult.reason = <<"Only Raydium available">>
        /\ (MeteoraYields /\ ~RaydiumYields) =>
              /\ routeResult.type = "ok"
              /\ routeResult.dex = "meteora"
              /\ routeResult.poolId = routeArgs.meteoraPoolId
              /\ routeResult.reason = <<"Only Meteora available">>

\* Raydium quoted, Meteora has a pool but its quote call threw, and the
\* router decided
C8_Witness ==
    /\ routeResult # NeverCalled
    /\ RaydiumYields
    /\ routeArgs.meteoraPoolId # Null /\ routeArgs.mq = QuoteThrows
    /\ routeResult.type = "ok"

Venues == {"raydium", "meteora"}
\* venue v reports a pool at poll k: the file names one, or the chain does
Reported(v, k) == poolEnv.file[v] # Null \/ poolEnv.polls[k][v].exists
ReportedId(v, k) == IF poolEnv.file[v] # Null THEN poolEnv.file[v]
                    ELSE poolEnv.polls[k][v].poolId
NoPollThrows ==
    \A k \in 1..Budget, v \in Venues : poolEnv.polls[k][v].type # "throw"
ResultId(v) == IF v = "raydium" THEN poolResult.raydiumPoolId
               ELSE poolResult.meteoraPoolId

\* C9: the pool monitor returns found=true with that venue's pool id
\* whenever any venue reports a pool on some poll k of the budget (k > 1
\* included), and found=false with no pool ids only when no venue reported
\* a pool on any poll of the budget.
C9_FoundWithinBudget ==
    (poolResult # NeverCalled /\ NoPollThrows) =>
        /\ poolResult.type = "ok"
        /\ poolResult.found
              <=> (\E k \in 1..Budget, v \in Venues : Reported(v, k))
        /\ poolResult.found =>
              \E k \in 1..Budget, v \in Venues :
                  Reported(v, k) /\ ResultId(v) = ReportedId(v, k)
        /\ ~poolResult.found =>
              \A v \in Venues : ResultId(v) = Null

\* the retry bookkeeping of a job: never more than maxRetries attempts, a
\* job still to run has attempts left, a completed job left the order
\* confirmed
RetryBound ==
    \A o \in DOMAIN job :
        /\ job[o].attemptsMade <= maxRetries
        /\ job[o].state \in {"waiting", "active"}
              => job[o].attemptsMade < maxRetries
        /\ job[o].state = "completed"
              => /\ orders[o].status = "confirmed"
                 /\ job[o].attemptsMade \in 1..maxRetries
        /\ job[o].state = "failed" => job[o].attemptsMade = maxRetries

\* C10: a job is run at most maxRetries times, attempt k+1 only after
\* attempt k raised an error and k < maxRetries; a job that succeeds at
\* attempt k leaves the order confirmed after k attempts, and a job whose
\* maxRetries attempts all failed leaves the order with durable status
\* failed.
C10_RetryOutcome ==
    /\ RetryBound
    /\ \A o \in DOMAIN job :
          job[o].state = "failed" => orders[o].status = "failed"

\* C11: after the k-th failed attempt of a job (k < maxRetries) the next
\* attempt does not start before 2^k seconds have passed since the failure:
\* the backoff function 2^attemptsMade * 1000 ms is applied to retries.
C11_BackoffApplied ==
    [][\A o \in DOMAIN job :
          (/\ job[o].state = "waiting"
           /\ job[o].attemptsMade > 0
           /\ job'[o].state = "active")
          => now >= job[o].failedAt + backoffStrategy(job[o].attemptsMade)]_vars

\* a job leaves the worker only when its processor returned (after the
\* confirmed step) or threw (after the catch block)
RunsToCompletion ==
    \A o \in DOMAIN job :
        (job[o].state = "active" /\ job'[o].state # "active")
            => /\ job[o].pc \in {"confirmed", "catch"}
               /\ job'[o].state \in {"completed", "waiting", "failed"}

Member(c, id) == id \in DOMAIN wsConnections /\ c \in wsConnections[id]

C15_NoStaleObservers ==
    \A o \in DOMAIN wsConnections :
        /\ wsConnections[o] # {}
        /\ \A c \in wsConnections[o] :
              readyState[c] # CLOSED /\ orderId[c] = o

\* an observer has disconnected and its order's entry is gone, while the
\* entry of another order with a live observer is kept
C15_Witness ==
    /\ \E c \in Conns :
          /\ readyState[c] = CLOSED
          /\ orderId[c] # NoOrder
          /\ orderId[c] \notin DOMAIN wsConnections
    /\ \E d \in Conns : Member(d, orderId[d]) /\ readyState[d] = OPEN

\* C16: nothing is buffered for observers: a client gets a status event
\* only in a broadcast made while its socket is in the order's set (none
\* from before it subscribed, none after it left), and a broadcast for an
\* order without observers sends nothing and leaves what the clients hold,
\* the observer mapping and the order store unchanged.
C16_NothingBuffered ==
    [][/\ \A c \in Conns :
             (received'[c] \cap PublishEvents) \ received[c] # {}
                => /\ published'.n # published.n
                   /\ Member(c, published'.orderId)
       /\ (/\ published'.n # published.n
           /\ \A c \in Conns : ~Member(c, published'.orderId))
          => /\ published'.sends = NoSends
             /\ UNCHANGED <<received, wsConnections, orders>>]_vars

\* an event was published for an order that had no observer, nothing was
\* sent, and the socket that subscribed to that order afterwards holds the
\* acknowledgement only
C16_Witness ==
    /\ published.n > 0
    /\ published.sends = NoSends
    /\ \E c \in Conns :
          /\ orderId[c] = published.orderId
          /\ Member(c, orderId[c])
          /\ readyState[c] = OPEN
          /\ received[c] = {"ack"}

\* C17: when a step of a job attempt raised an error, the attempt runs no
\* later step: its next move persists failed with the error's message,
\* sends the failed event to the open observers and hands the job back to
\* the queue's retry policy.
C17_FailureRecordedOnce ==
    [][\A o \in DOMAIN job :
          (job[o].state = "active" /\ job[o].pc = "catch" /\ job'[o] # job[o])
          => /\ job'[o].state \in {"waiting", "failed"}
             /\ orders'[o].status = "failed"
             /\ orders'[o].error_message = job[o].error
             /\ \A c \in Conns :
                   (Member(c, o) /\ readyState[c] = OPEN)
                      => "failed" \in received'[c]]_vars

\* work that has been accepted and still needs the store connection: a
\* job being processed, or a handler about to insert its order
NeedsStore ==
    \/ Active # {}
    \/ \E c \in Conns : handler[c] = "creating"
\* accepted work that still needs the queue connection
NeedsQueue ==
    \/ Active # {}
    \/ \E c \in Conns : handler[c] \in {"creating", "enqueueing"}

\* C18: on shutdown the admission of orders is halted first and the store
\* and queue connections are closed last: no order is accepted once the
\* SIGTERM handler has begun, and neither connection is closed while a job
\* is being processed or an accepted order still needs it.
C18_ShutdownOrder ==
    /\ [][\A c \in Conns : orderId'[c] # orderId[c] => sigterm = "none"]_vars
    /\ [](Called("redisConnection.quit") => ~NeedsQueue)
    /\ [](Called("pgPool.end") => ~NeedsStore)

\* C20: a terminal event is the last event of an order: once the client of
\* an open socket holds a confirmed or failed event, no step delivers it a
\* further event.
C20_TerminalEventIsLast ==
    [][\A c \in Conns :
          (readyState[c] = OPEN /\ received[c] \cap Terminal # {})
             => received'[c] \subseteq received[c]]_vars

\* the status events of the worker
WorkerEvents == {"pending", "monitoring", "triggered", "routing", "building",
                 "submitted", "confirmed", "failed"}

PersistedAt(pc) ==
    CASE pc = "monitoring" -> "pending"
      [] pc \in {"checkPool", "triggered"} -> "monitoring"
      [] pc = "routing" -> "triggered"
      [] pc \in {"getRoute", "building"} -> "routing"
      [] pc = "submitted" -> "building"
      [] pc \in {"execute", "confirmed"} -> "submitted"

\* in the middle of an attempt the stored status is the one of the last
\* step passed
AttemptInStep ==
    \A o \in DOMAIN job :
        (job[o].state = "active" /\ job[o].pc \notin {"pending", "catch"})
            => orders[o].status = PersistedAt(job[o].pc)

\* an attempt starts at the pending step with no pool report and no route,
\* and a running attempt moves the stored status to the next status of the
\* sequence, to failed, or, in its first step, to pending
AttemptStepOrder ==
    \A o \in DOMAIN job :
        /\ (job[o].state = "waiting" /\ job'[o].state = "active")
              => /\ job'[o].pc = "pending"
                 /\ job'[o].poolCheck = NoPools
                 /\ job'[o].bestRoute = NoRoute
        /\ orders'[o].status # orders[o].status
              => /\ job[o].state = "active"
                 /\ \/ /\ job[o].pc = "pending"
                       /\ orders'[o].status = "pending"
                    \/ /\ job[o].pc \notin {"pending", "catch"}
                       /\ orders'[o].status \notin Terminal
                       /\ Rank(orders'[o].status) = Rank(orders[o].status) + 1
                    \/ /\ job[o].pc = "confirmed"
                       /\ orders[o].status = "submitted"
                       /\ orders'[o].status = "confirmed"
                    \/ /\ job[o].pc = "catch"
                       /\ orders'[o].status = "failed"

\* an attempt that ends leaves the order confirmed or failed
AttemptEnds ==
    \A o \in DOMAIN job :
        (job[o].state = "active" /\ job'[o].state # "active")
            => orders'[o].status \in Terminal

OrderWithinAttempt == []AttemptInStep /\ [][AttemptStepOrder]_vars

\* C22: within one attempt the statuses are persisted in the
\* order pending, monitoring, triggered, routing, building, submitted,
\* confirmed, none skipped; the attempt completes the sequence or ends with
\* failed after a prefix of it; a retry starts again from pending with pool
\* discovery and routing still to do.
C22_AttemptSequence ==
    []AttemptInStep /\ [][AttemptStepOrder /\ AttemptEnds]_vars

\* the attempt is in its catch block because the monitor found no pool
NoPoolCaught(o) ==
    /\ job[o].state = "active"
    /\ job[o].pc = "catch"
    /\ job[o].error = ErrPoolNotFound

\* an attempt whose monitor found no pool has persisted nothing after
\* monitoring and holds no route
NoPoolStopsPipeline ==
    \A o \in DOMAIN job :
        NoPoolCaught(o) => /\ orders[o].status = "monitoring"
                           /\ job[o].bestRoute = NoRoute

\* found = false takes the attempt from the monitor straight to the catch
\* block, and from there to its end, without a swap and without a second
\* look for pools
NoPoolNoFurtherWork ==
    \A o \in DOMAIN job :
        /\ (job[o].state = "active" /\ job[o].pc = "checkPool" /\ job'[o].pc # "checkPool")
              => job'[o].pc \in {"triggered", "catch"}
        /\ (NoPoolCaught(o) \/ (job'[o].state = "active" /\ job'[o].pc = "catch"
                                   /\ job'[o].error = ErrPoolNotFound))
              => swaps'[o] = swaps[o]
        /\ (NoPoolCaught(o) /\ job'[o] # job[o])
              => /\ job'[o].state \in {"waiting", "failed"}
                 /\ orders'[o].status \in {"monitoring", "failed"}

\* the attempt whose monitor found no pool ends with failed and the
\* monitor's message stored
NoPoolEndsFailed ==
    \A o \in DOMAIN job :
        (NoPoolCaught(o) /\ job'[o].state # "active")
            => /\ orders'[o].status = "failed"
               /\ orders'[o].error_message = ErrPoolNotFound

NoPoolRest == []NoPoolStopsPipeline /\ [][NoPoolNoFurtherWork]_vars

\* C23: when the pool monitor returns found = false the attempt
\* ends with status failed and the message 'Pool not found on any DEX';
\* triggered is not persisted, the router is not invoked, no swap is
\* executed and the monitor is not run again within the attempt.
C23_NoPoolFailsAttempt ==
    []NoPoolStopsPipeline /\ [][NoPoolNoFurtherWork /\ NoPoolEndsFailed]_vars

\* C24: submitted is persisted only after the swap of the attempt
\* has been handed to the network: when the stored status becomes
\* submitted the attempt's execute-swap call has been made, so a running
\* attempt with submitted stored is never still in front of that call.
C24_SubmittedAfterHandOff ==
    \A o \in DOMAIN job :
        (job[o].state = "active" /\ orders[o].status = "submitted")
            => job[o].pc # "execute"

\* the transaction id the venue returns to the running attempt of order o
TxIdOfAttempt(o) == ToString(job[o].attemptsMade + 1)

PoolIdOf(poolCheck, dex) ==
    IF dex = "raydium" THEN poolCheck.raydiumPoolId ELSE poolCheck.meteoraPoolId

\* C26: in every attempt the swap is executed on the venue the
\* router selected, which is the selected_dex stored at the building step
\* of that attempt, with that venue's pool id: a swap entering a venue's
\* books is on the order's stored selected_dex and on the pool the monitor
\* reported for it.
C26_SwapOnSelectedVenue ==
    [][\A o \in DOMAIN job :
          swaps'[o] # swaps[o]
            => /\ Len(swaps'[o]) = Len(swaps[o]) + 1
               /\ SubSeq(swaps'[o], 1, Len(swaps[o])) = swaps[o]
               /\ LET swap == swaps'[o][Len(swaps'[o])]
                  IN  /\ swap.dex \in Venues
                      /\ swap.dex = job[o].bestRoute.dex
                      /\ swap.dex = orders[o].selected_dex
                      /\ orders[o].status = "submitted"
                      /\ swap.poolId # Null
                      /\ swap.poolId = job[o].bestRoute.poolId
                      /\ swap.poolId = PoolIdOf(job[o].poolCheck, swap.dex)]_vars

\* a second attempt has swapped on Meteora, the venue it routed to and
\* stored, after a first attempt that swapped on Raydium
C26_Witness ==
    \E o \in DOMAIN job :
        /\ Len(swaps[o]) = 2
        /\ swaps[o][1].dex = "raydium"
        /\ swaps[o][2] = [dex |-> "meteora", poolId |-> "meteora-pool"]
        /\ orders[o].selected_dex = "meteora"
        /\ job[o].state = "active"
        /\ job[o].pc = "confirmed"

\* C27: selected_dex is set once: once an order's selected_dex
\* is stored, no later store update, of the same attempt or of a retry that
\* routes differently, changes it.
C27_SelectedDexSetOnce ==
    [][\A o \in DOMAIN orders :
          orders[o].selected_dex # Null
            => orders'[o].selected_dex = orders[o].selected_dex]_vars

\* C28: across all attempts of one order a swap is executed on a
\* venue at most once, also when a step after the execute-swap call fails
\* and the queue retries the job.
C28_AtMostOneSwap ==
    \A o \in OrderIds : Len(swaps[o]) <= 1

\* the arguments and the result of the call, per venue
ArgPoolId(v) == IF v = "raydium" THEN routeArgs.raydiumPoolId
                ELSE routeArgs.meteoraPoolId
ArgQuote(v) == IF v = "raydium" THEN routeArgs.rq ELSE routeArgs.mq
ResultQuote(v) == IF v = "raydium" THEN routeResult.raydiumQuote
                  ELSE routeResult.meteoraQuote

\* C29: a quote is requested only from a venue whose pool id is
\* known, and every decision getBestRoute returns names a venue that has a
\* non-null pool id and returned a quote in this call, with poolId that
\* venue's pool id and selectedQuote that venue's quote.
C29_DecisionNamesQuotingVenue ==
    routeResult.type = "ok" =>
        /\ routeResult.dex \in Venues
        /\ ArgPoolId(routeResult.dex) # Null
        /\ ArgQuote(routeResult.dex).type = "quote"
        /\ routeResult.poolId = ArgPoolId(routeResult.dex)
        /\ routeResult.selectedQuote = ArgQuote(routeResult.dex)
        /\ \A v \in Venues :
              ResultQuote(v) # Undefined
                => /\ ArgPoolId(v) # Null
                   /\ ResultQuote(v) = ArgQuote(v)

\* Raydium would have quoted but has no known pool: it is not asked, and
\* the decision names Meteora with Meteora's pool and quote
C29_Witness ==
    /\ routeResult.type = "ok"
    /\ routeArgs.raydiumPoolId = Null
    /\ routeArgs.rq.type = "quote"
    /\ routeResult.raydiumQuote = Undefined
    /\ routeResult.dex = "meteora"
    /\ routeResult.poolId = "meteora-pool"
    /\ routeResult.selectedQuote = routeArgs.mq

\* C30: the comparison of the output amounts is exact for
\* integer amounts of any magnitude, 2^53 and more included: when both
\* venues quote, getBestRoute returns a decision, and for distinct amounts
\* the decision is the venue with the larger one.
C30_ExactComparison ==
    (routeResult # NeverCalled /\ RaydiumYields /\ MeteoraYields)
        => /\ routeResult.type = "ok"
           /\ BNgt(routeArgs.rq.outputAmount, routeArgs.mq.outputAmount)
                 => routeResult.dex = "raydium"
           /\ BNgt(routeArgs.mq.outputAmount, routeArgs.rq.outputAmount)
                 => routeResult.dex = "meteora"

\* both venues quote, and quote the same output amount
TiedQuotes ==
    /\ routeResult # NeverCalled
    /\ RaydiumYields /\ MeteoraYields
    /\ routeArgs.rq.outputAmount = routeArgs.mq.outputAmount

\* a tie of amounts below 2^53 goes to Meteora whatever the fees and impacts
TieBelow2p53ToMeteora ==
    (TiedQuotes /\ toNumber(routeArgs.rq.outputAmount).type = "number")
        => /\ routeResult.type = "ok"
           /\ routeResult.dex = "meteora"
           /\ routeResult.poolId = routeArgs.meteoraPoolId

\* C31: routing is deterministic on ties: when both venues quote
\* exactly equal output amounts getBestRoute selects Meteora, whatever the
\* fees and the price impacts of the two quotes.
C31_TieSelectsMeteora ==
    TiedQuotes => /\ routeResult.type = "ok"
                  /\ routeResult.dex = "meteora"
                  /\ routeResult.poolId = routeArgs.meteoraPoolId

\* C32: orders are independent: a step, failure or retry of one
\* order's job changes only that order's row in the store and sends events
\* only to the sockets registered under that order's id, under every
\* interleaving of the running jobs.
C32_OrdersIndependent ==
    [][\A o \in DOMAIN job :
          job'[o] # job[o]
            => /\ DOMAIN orders' = DOMAIN orders
               /\ \A p \in DOMAIN orders \ {o} : orders'[p] = orders[p]
               /\ \A c \in Conns :
                     received'[c] # received[c]
                       => /\ Member(c, o)
                          /\ orderId[c] = o
               /\ \A p \in DOMAIN job \ {o} : job'[p] = job[p]
               /\ wsConnections' = wsConnections]_vars

\* two jobs run at the same time: one order has failed and its observer
\* holds the failed event, the other is being built and its observer holds
\* no failed event
C32_Witness ==
    \E c, d \in Conns :
        /\ c # d
        /\ readyState[c] = OPEN /\ readyState[d] = OPEN
        /\ Member(c, orderId[c]) /\ Member(d, orderId[d])
        /\ orderId[c] # orderId[d]
        /\ orderId[c] \in DOMAIN job /\ orderId[d] \in DOMAIN job
        /\ job[orderId[c]].state = "active"
        /\ job[orderId[d]].state = "active"
        /\ job[orderId[c]].attemptsMade = 1
        /\ orders[orderId[c]].status = "failed"
        /\ "failed" \in received[c]
        /\ orders[orderId[d]].status = "building"
        /\ "failed" \notin received[d]
        /\ "building" \in received[d]

\* the connections whose message created an order
Ordering == {c \in Conns : orderId[c] # NoOrder}

\* a connection has at most one order, created by its first message and
\* only when that message was valid; orders and jobs come from nowhere else
OneOrderPerConnection ==
    /\ \A c \in Ordering : orderProcessed[c] /\ c \in ValidConns
    /\ \A c \in InvalidConns : orderProcessed[c] /\ orderId[c] = NoOrder
    /\ \A c, d \in Ordering : c # d => orderId[c] # orderId[d]
    /\ nextOrderId - 1 = Cardinality(Ordering)
    /\ DOMAIN orders \subseteq {orderId[c] : c \in Ordering}
    /\ DOMAIN job \subseteq DOMAIN orders

\* once the first message was taken the connection takes no other, its
\* order id stays, and a job in the queue is never added again: its attempts
\* are counted on, and an attempt starts only from a job that is waiting
FirstMessageOnly ==
    /\ \A c \in Conns :
          orderProcessed[c]
            => /\ orderProcessed'[c]
               /\ orderId'[c] = orderId[c]
               /\ firstMsg'[c] = firstMsg[c]
    /\ \A o \in DOMAIN job :
          /\ o \in DOMAIN job'
          /\ job'[o].attemptsMade >= job[o].attemptsMade
          /\ (job'[o].state = "active" /\ job[o].state # "active")
                => job[o].state = "waiting" /\ job[o].pc = "idle"
    /\ \A o \in DOMAIN orders : o \in DOMAIN orders'

AtMostOneOrderAndJob == []OneOrderPerConnection /\ [][FirstMessageOnly]_vars

\* an order whose handler has got past orderQueue.add has its job
OrderHasJob ==
    \A c \in Ordering :
        (orderId[c] \in DOMAIN orders /\ handler[c] # "enqueueing")
            => orderId[c] \in DOMAIN job

\* C33: each connection creates at most one order and each order
\* has exactly one job in the queue: only the first message on a connection
\* is treated as an order, also when it was invalid; later messages create
\* no order and enqueue no job; an attempt of a job starts only when no
\* other attempt of it is running.
C33_OneOrderOneJob ==
    [](OneOrderPerConnection /\ OrderHasJob) /\ [][FirstMessageOnly]_vars

\* ---- the queue under fair scheduling: a job that can take a step of its
\* processor, or can be handed to a free worker slot, eventually is
JobStep(o) ==
    \/ StartJob(o)
    \/ StepPending(o)
    \/ StepMonitoring(o)
    \/ CheckPool(o)
    \/ StepTriggered(o)
    \/ StepRouting(o)
    \/ GetRoute(o)
    \/ StepBuilding(o)
    \/ StepSubmitted(o)
    \/ Execute(o)
    \/ StepConfirmed(o)
    \/ Catch(o)

SpecQueueFair == SpecQueue /\ \A o \in OrderIds : WF_vars(JobStep(o))

\* the job of order o has left the queue for good
JobStopped(o) == job[o].state \in {"completed", "failed"}

\* every job stops: none is retried forever
JobsStop == <>[](\A o \in OrderIds : JobStopped(o))

\* order o is settled: confirmed by a completed job, or failed with the
\* attempts of its job used up
Settled(o) ==
    \/ job[o].state = "completed" /\ orders[o].status = "confirmed"
    \/ /\ job[o].state = "failed"
       /\ job[o].attemptsMade = maxRetries
       /\ orders[o].status = "failed"

\* C34: every enqueued job eventually stops: under fair
\* scheduling, with venue and store calls that return or throw, each order
\* reaches durable status confirmed, or failed with its attempts exhausted,
\* and stays there; none is left for ever in a non-terminal status.
C34_EveryOrderSettles == <>[](\A o \in OrderIds : Settled(o))

====
